---- MODULE Spec2Model ----
(***************************************************************************)
(* A model of the SoleStyle storefront: the Hono request handlers over the *)
(* key-value store (index.tsx), the StoreFront cart and product filter,    *)
(* and the CheckoutDialog wizard.                                          *)
(*                                                                         *)
(* Money is counted in hundredths of a shilling, so that 8% of a whole     *)
(* amount is again a whole number: KES(1000) is 1000 shillings.            *)
(***************************************************************************)
EXTENDS Integers, Sequences, FiniteSets, TLC

VARIABLES
    kv,         \* the key-value table: <<prefix, id>> -> stored record
    nextId,     \* the next identifier crypto.randomUUID() hands out
    now,        \* the server clock read by new Date(): one instant per served write
    inflight,   \* handlers suspended between their kv read and their kv write
    overlap,    \* how many handlers the runtime lets wait on the table at once
    last        \* the last response sent by the server

\* StoreFront
VARIABLES
    products,           \* the product list loaded from GET /products
    categories,         \* the categories loaded from GET /categories/active
    filteredProducts,   \* the displayed list
    searchQuery,
    categoryFilter,
    sortBy,
    priceRange,
    fetches,            \* the requests of the mount effect that have not answered
    cart,
    cartOpen

\* ShoppingCartPanel and CheckoutDialog
VARIABLES
    showCheckout,
    step,
    loading,
    locations,
    selectedLocation,
    paymentMethod,
    customer,           \* customerName, customerEmail, customerPhone, deliveryAddress
    mpesaPhone,
    card,               \* cardNumber, cardExpiry, cardCvc, cardName
    locationFetches,    \* the loadLocations requests that have not answered
    submissions,        \* the handlePayment calls that have not returned
    timers              \* the completion timers that have not fired

serverVars == <<kv, nextId, now, inflight, overlap, last>>

shopVars == <<products, categories, filteredProducts, searchQuery, categoryFilter,
              sortBy, priceRange, fetches>>

cartVars == <<cart, cartOpen>>

wizardVars == <<showCheckout, step, loading, locations, selectedLocation,
                paymentMethod, customer, mpesaPhone, card, locationFetches,
                submissions, timers>>

clientVars == <<shopVars, cartVars, wizardVars>>

vars == <<serverVars, clientVars>>

---------------------------------------------------------------------------
(* Bounds of the model *)

MaxTarget == 2
MaxTime == 3
MaxInflight == 2
MaxFetches == 2
MaxOrders == 2
MaxQuantity == 2
MaxLines == 2

---------------------------------------------------------------------------
(* Records and object spread *)

KES(n) == n * 100

EmptyRec == [f \in {} |-> 0]

Has(r, f) == f \in DOMAIN r

\* {...a, ...b}
Spread(a, b) ==
    [f \in (DOMAIN a) \cup (DOMAIN b) |-> IF f \in DOMAIN b THEN b[f] ELSE a[f]]

Range(list) == {list[i] : i \in DOMAIN list}

\* kv.get: the stored record, or nothing
KvHas(store, key) == key \in DOMAIN store

\* kv.set
KvSet(store, key, value) ==
    [k \in (DOMAIN store) \cup {key} |-> IF k = key THEN value ELSE store[k]]

\* kv.del
KvDel(store, key) == [k \in (DOMAIN store) \ {key} |-> store[k]]

\* kv.getByPrefix: the keys stored under a prefix
KeysByPrefix(store, prefix) == {k \in DOMAIN store : k[1] = prefix}

---------------------------------------------------------------------------
(* Values the requests carry *)

\* A size is a number or a text label (sizes: [7, 8] or ['S', 'M']); a text is
\* the sequence of its characters.  NaN is the number parseInt gives for a
\* text that starts with no digit.
Num(n) == [t |-> "number", n |-> n, s |-> <<>>]
Txt(s) == [t |-> "string", n |-> 0, s |-> s]
NaN == [t |-> "NaN", n |-> 0, s |-> <<>>]

\* supabase.auth.getUser(accessToken): only the admin session token resolves
Tokens == {"none", "bad", "admin"}
Authorized(tok) == tok = "admin"

\* The path ids a request may name; 0 was never handed out
TargetIds == 0 .. MaxTarget

OrderStatuses == {"pending", "processing", "shipped", "delivered", "cancelled"}

\* sampleProducts, three of them standing for the list
sampleProducts ==
    << [name |-> "Urban Runner Pro", description |-> "Premium running shoes",
        price |-> KES(8500), category |-> "Athletic Shoes",
        sizes |-> <<Num(7), Num(8)>>, colors |-> <<"Black", "White">>,
        stock |-> 50, featured |-> TRUE],
       [name |-> "Heritage Leather Boots", description |-> "Rugged leather boots",
        price |-> KES(12500), category |-> "Casual Boots",
        sizes |-> <<Num(7), Num(8)>>, colors |-> <<"Brown", "Black">>,
        stock |-> 30, featured |-> FALSE],
       [name |-> "Elegant Summer Dress", description |-> "Beautiful flowing dress",
        price |-> KES(4200), category |-> "Dresses",
        sizes |-> <<Txt(<<"S">>), Txt(<<"M">>)>>, colors |-> <<"Floral", "Red">>,
        stock |-> 45, featured |-> TRUE] >>

\* defaultLocations
defaultLocations ==
    << [name |-> "Nairobi CBD", cost |-> KES(0), region |-> "Nairobi"],
       [name |-> "Westlands", cost |-> KES(0), region |-> "Nairobi"],
       [name |-> "Karen", cost |-> KES(0), region |-> "Nairobi"],
       [name |-> "Kilimani", cost |-> KES(0), region |-> "Nairobi"],
       [name |-> "Machakos Town", cost |-> KES(0), region |-> "Machakos"],
       [name |-> "Athi River", cost |-> KES(0), region |-> "Machakos"],
       [name |-> "Kisumu", cost |-> KES(500), region |-> "Kisumu"],
       [name |-> "Mombasa", cost |-> KES(600), region |-> "Mombasa"],
       [name |-> "Nakuru", cost |-> KES(400), region |-> "Nakuru"],
       [name |-> "Eldoret", cost |-> KES(550), region |-> "Eldoret"] >>

\* defaultCategories, each with the subcategories the sample products use
defaultCategories ==
    << [name |-> "Footwear", active |-> TRUE,
        subcategories |-> <<"Canvas Sneakers", "Casual Boots", "Athletic Shoes">>],
       [name |-> "Clothes", active |-> TRUE,
        subcategories |-> <<"T-Shirts", "Dresses", "Jeans">>],
       [name |-> "Essentials", active |-> TRUE,
        subcategories |-> <<"Toiletries", "Stationery">>],
       [name |-> "Appliances", active |-> TRUE,
        subcategories |-> <<"Kitchen Appliances", "Home Appliances">>],
       [name |-> "Electronics", active |-> TRUE,
        subcategories |-> <<"Phones", "Audio Devices">>] >>

\* productsByCategory[categoryName], undefined for a name it does not list
productsByCategory(categoryName) ==
    IF categoryName = "Footwear" THEN <<sampleProducts[1], sampleProducts[2]>>
    ELSE IF categoryName = "Clothes" THEN <<sampleProducts[3]>>
    ELSE <<>>

\* Request bodies the clients send.  A body may carry an id of its own.
ProductBodies ==
    { [id |-> 0, name |-> "Desk Lamp", description |-> "Adjustable desk lamp",
       price |-> KES(1000), category |-> "Lighting",
       sizes |-> <<Txt(<<"S", "t", "a", "n", "d", "a", "r", "d">>)>>,
       colors |-> <<"White">>] }

ProductUpdates ==
    { [price |-> KES(9500)],
      [id |-> 0, updatedAt |-> -1] }

locationBodies ==
    << [name |-> "Westlands", cost |-> KES(0), region |-> "Nairobi"],
       [name |-> "Thika", cost |-> KES(300), region |-> "Kiambu"] >>

LocationBodies == Range(locationBodies)

LocationUpdates ==
    { [id |-> 0, cost |-> KES(350)] }

OrderUpdates ==
    { [status |-> "shipped"],
      [id |-> 0, status |-> "refunded", total |-> KES(5)] }

\* What CategoryManagement.handleSubmit sends with the subcategories field
\* left blank, and a body of another client that carries an id
CategoryBodies ==
    { [name |-> "Lighting", description |-> "Lamps and shades",
       subcategories |-> <<>>, active |-> FALSE],
      [id |-> 1, name |-> "Lighting", active |-> TRUE] }

PaymentBodies ==
    { [phoneNumber |-> "254712345678", amount |-> KES(2160), orderId |-> 1] }

CategoryNames == {"Footwear", "Gadgets"}

---------------------------------------------------------------------------
(* The records the handlers build *)

\* { ...product, id, createdAt, updatedAt }
newProduct(product, id, t) ==
    Spread(product, [id |-> id, createdAt |-> t, updatedAt |-> t])

\* { ...location, id }
newLocation(location, id) == Spread(location, [id |-> id])

\* What a client may post as an order: the cart lines, the copy of the
\* delivery location and the totals as the checkout sends them (JSON carries
\* the NaN size of a line as null), and a body of another client of the
\* public endpoint
OrderBodies ==
    { [cart |-> << Spread(newProduct(CHOOSE product \in ProductBodies : TRUE, 1, 0),
                          [quantity |-> 2, selectedSize |-> EmptyRec,
                           selectedColor |-> "White"]) >>,
       deliveryLocation |-> newLocation(locationBodies[1], 2),
       subtotal |-> KES(2000), deliveryCost |-> KES(0), tax |-> KES(160),
       total |-> KES(2160)],
      [id |-> 0, status |-> "paid", subtotal |-> KES(2000), deliveryCost |-> KES(0),
       tax |-> KES(0), total |-> KES(1)] }

\* { ...order, id, status: 'pending', createdAt }
newOrder(order, id, t) ==
    Spread(order, [id |-> id, status |-> "pending", createdAt |-> t])

\* A payment stored as settled
mpesaPaymentSettled(body, paymentId, t) ==
    [id |-> paymentId, orderId |-> body.orderId, method |-> "mpesa",
     phoneNumber |-> body.phoneNumber, amount |-> body.amount,
     status |-> "completed", createdAt |-> t]

\* { id: paymentId, orderId, method, phoneNumber, amount, status: 'pending', createdAt }
mpesaPayment(body, paymentId, t) ==
    [id |-> paymentId, orderId |-> body.orderId, method |-> "mpesa",
     phoneNumber |-> body.phoneNumber, amount |-> body.amount,
     status |-> "pending", createdAt |-> t]

\* { id: paymentId, orderId, method: 'card', amount, status: 'pending', createdAt }
cardPayment(body, paymentId, t) ==
    [id |-> paymentId, orderId |-> body.orderId, method |-> "card",
     amount |-> body.amount, status |-> "pending", createdAt |-> t]

\* { ...category, id, updatedAt } with id = category.id || crypto.randomUUID()
categoryId(category, fresh) ==
    IF Has(category, "id") THEN category.id ELSE fresh

newCategory(category, id, t) == Spread(category, [id |-> id, updatedAt |-> t])

\* A merge that lets the body's id stand: { ...existing, ...updates, updatedAt }
updatedProductBodyId(existing, updates, id, t) ==
    Spread(Spread(existing, updates), [updatedAt |-> t])

\* { ...existing, ...updates, id, updatedAt }
updatedProduct(existing, updates, id, t) ==
    Spread(Spread(existing, updates), [id |-> id, updatedAt |-> t])

\* { ...existing, ...updates, id }
updatedLocation(existing, updates, id) ==
    Spread(Spread(existing, updates), [id |-> id])

\* { ...existing, ...updates, id, updatedAt }
updatedOrder(existing, updates, id, t) ==
    Spread(Spread(existing, updates), [id |-> id, updatedAt |-> t])

\* !existing.active, a missing flag counting as false
Truthy(r, f) == Has(r, f) /\ r[f] = TRUE

\* A toggle that only ever activates: { ...existing, active: true, updatedAt }
activatedCategory(existing, t) ==
    Spread(existing, [active |-> TRUE, updatedAt |-> t])

\* { ...existing, active: !existing.active, updatedAt }
updatedCategory(existing, t) ==
    Spread(existing, [active |-> ~Truthy(existing, "active"), updatedAt |-> t])

\* The records a seeding loop writes, ids taken from first on
SeedWrites(store, prefix, items, first, t, stamped) ==
    LET ids == first .. (first + Len(items) - 1)
        rec(i) == IF stamped
                  THEN Spread(items[i - first + 1],
                              [id |-> i, createdAt |-> t, updatedAt |-> t])
                  ELSE Spread(items[i - first + 1], [id |-> i])
    IN [k \in (DOMAIN store) \cup {<<prefix, i>> : i \in ids} |->
            IF k[1] = prefix /\ k[2] \in ids THEN rec(k[2]) ELSE store[k]]

\* allCategories.filter(cat => cat.active)
ActiveCategoryKeys(store) ==
    {k \in KeysByPrefix(store, "category") : Truthy(store[k], "active")}

---------------------------------------------------------------------------
(* The request handlers.  A handler that reads the table and then writes   *)
(* it is suspended in inflight between the two awaits.                     *)

Respond(op, status, authed) ==
    last' = [op |-> op, status |-> status, authed |-> authed]

Unauthorized(op) ==
    /\ Respond(op, 401, FALSE)
    /\ UNCHANGED <<kv, nextId, now, inflight>>

NotFound(op) ==
    /\ Respond(op, 404, TRUE)
    /\ UNCHANGED <<kv, nextId, now, inflight>>

\* One record stored under a fresh id
Stored(op, prefix, id, record, authed) ==
    /\ kv' = KvSet(kv, <<prefix, id>>, record)
    /\ nextId' = nextId + 1
    /\ now' = now + 1
    /\ Respond(op, 200, authed)
    /\ UNCHANGED inflight

\* A create request, while the clock has not reached MaxTime
Create(op, prefix, id, record, authed) ==
    /\ now < MaxTime
    /\ Stored(op, prefix, id, record, authed)

\* kv.del of the key, stored or not
Delete(op, prefix, id) ==
    /\ now < MaxTime
    /\ kv' = KvDel(kv, <<prefix, id>>)
    /\ now' = now + 1
    /\ Respond(op, 200, TRUE)
    /\ UNCHANGED <<nextId, inflight>>

\* The number of a request being served: two requests that read the
\* same record are still two requests
Request == CHOOSE n \in 1 .. overlap : \A r \in inflight : r.n # n

\* The handler has read existing and awaits its write
Suspend(op, prefix, id, updates) ==
    /\ now + Cardinality(inflight) < MaxTime
    /\ Cardinality(inflight) < overlap
    /\ inflight' = inflight \cup
           {[n |-> Request, op |-> op, key |-> <<prefix, id>>, updates |-> updates,
             existing |-> IF KvHas(kv, <<prefix, id>>) THEN kv[<<prefix, id>>]
                          ELSE EmptyRec]}
    /\ UNCHANGED <<kv, nextId, now, last>>

\* The suspended handler r writes record and answers
Resume(r, record) ==
    /\ kv' = KvSet(kv, r.key, record)
    /\ now' = now + 1
    /\ inflight' = inflight \ {r}
    /\ Respond(r.op, 200, TRUE)
    /\ UNCHANGED nextId

\* A create that stores under the id of the body when it has one
PostProductsBodyId ==
    /\ UNCHANGED <<clientVars, overlap>>
    /\ \E tok \in Tokens :
        IF ~Authorized(tok) THEN Unauthorized("POST /products")
        ELSE \E product \in ProductBodies :
          LET id == categoryId(product, nextId)
          IN Create("POST /products", "product", id, newProduct(product, id, now), TRUE)

\* app.post('/products')
PostProducts ==
    /\ UNCHANGED <<clientVars, overlap>>
    /\ \E tok \in Tokens :
        IF ~Authorized(tok) THEN Unauthorized("POST /products")
        ELSE \E product \in ProductBodies :
          Create("POST /products", "product", nextId,
                    newProduct(product, nextId, now), TRUE)

\* An update that stores the body when nothing is stored under the id
PutProductsIdUpsert ==
    /\ UNCHANGED <<clientVars, overlap>>
    /\ \E tok \in Tokens :
        IF ~Authorized(tok) THEN Unauthorized("PUT /products/:id")
        ELSE \E id \in TargetIds, updates \in ProductUpdates :
          Suspend("PUT /products/:id", "product", id, updates)

\* app.put('/products/:id'), up to kv.get
PutProductsId ==
    /\ UNCHANGED <<clientVars, overlap>>
    /\ \E tok \in Tokens :
        IF ~Authorized(tok) THEN Unauthorized("PUT /products/:id")
        ELSE \E id \in TargetIds, updates \in ProductUpdates :
          IF ~KvHas(kv, <<"product", id>>) THEN NotFound("PUT /products/:id")
          ELSE Suspend("PUT /products/:id", "product", id, updates)

\* app.put('/products/:id'), from kv.set
PutProductsIdWrite ==
    /\ UNCHANGED <<clientVars, overlap>>
    /\ \E r \in inflight :
        /\ r.op = "PUT /products/:id"
        /\ Resume(r, updatedProduct(r.existing, r.updates, r.key[2], now))

\* A delete that also strikes the product from the carts of the orders
DeleteProductsIdCascade ==
    /\ UNCHANGED <<clientVars, overlap>>
    /\ \E tok \in Tokens :
        IF ~Authorized(tok) THEN Unauthorized("DELETE /products/:id")
        ELSE \E id \in TargetIds :
          LET others(line) == line.id # id
              struck(record) ==
                  IF Has(record, "cart")
                  THEN Spread(record, [cart |-> SelectSeq(record.cart, others)])
                  ELSE record
          IN /\ now < MaxTime
             /\ kv' = [k \in (DOMAIN kv) \ {<<"product", id>>} |->
                          IF k[1] = "order" THEN struck(kv[k]) ELSE kv[k]]
             /\ now' = now + 1
             /\ Respond("DELETE /products/:id", 200, TRUE)
             /\ UNCHANGED <<nextId, inflight>>

\* app.delete('/products/:id')
DeleteProductsId ==
    /\ UNCHANGED <<clientVars, overlap>>
    /\ \E tok \in Tokens :
        IF ~Authorized(tok) THEN Unauthorized("DELETE /products/:id")
        ELSE \E id \in TargetIds :
          Delete("DELETE /products/:id", "product", id)

\* app.post('/delivery-locations')
PostDeliveryLocations ==
    /\ UNCHANGED <<clientVars, overlap>>
    /\ \E tok \in Tokens :
        IF ~Authorized(tok) THEN Unauthorized("POST /delivery-locations")
        ELSE \E location \in LocationBodies :
          Create("POST /delivery-locations", "delivery", nextId,
                    newLocation(location, nextId), TRUE)

\* app.put('/delivery-locations/:id'), up to kv.get
PutDeliveryLocationsId ==
    /\ UNCHANGED <<clientVars, overlap>>
    /\ \E tok \in Tokens :
        IF ~Authorized(tok) THEN Unauthorized("PUT /delivery-locations/:id")
        ELSE \E id \in TargetIds, updates \in LocationUpdates :
          IF ~KvHas(kv, <<"delivery", id>>)
          THEN NotFound("PUT /delivery-locations/:id")
          ELSE Suspend("PUT /delivery-locations/:id", "delivery", id, updates)

\* app.put('/delivery-locations/:id'), from kv.set
PutDeliveryLocationsIdWrite ==
    /\ UNCHANGED <<clientVars, overlap>>
    /\ \E r \in inflight :
        /\ r.op = "PUT /delivery-locations/:id"
        /\ Resume(r, updatedLocation(r.existing, r.updates, r.key[2]))

\* app.delete('/delivery-locations/:id')
DeleteDeliveryLocationsId ==
    /\ UNCHANGED <<clientVars, overlap>>
    /\ \E tok \in Tokens :
        IF ~Authorized(tok) THEN Unauthorized("DELETE /delivery-locations/:id")
        ELSE \E id \in TargetIds :
          Delete("DELETE /delivery-locations/:id", "delivery", id)

\* app.post('/orders'): no token is asked for
PostOrders ==
    /\ UNCHANGED <<clientVars, overlap>>
    /\ \E tok \in Tokens, order \in OrderBodies :
        Create("POST /orders", "order", nextId, newOrder(order, nextId, now),
               Authorized(tok))

\* app.post('/payment/mpesa'): no token is asked for
PostPaymentMpesa ==
    /\ UNCHANGED <<clientVars, overlap>>
    /\ \E tok \in Tokens, body \in PaymentBodies :
        Create("POST /payment/mpesa", "payment", nextId,
               mpesaPayment(body, nextId, now), Authorized(tok))

\* app.post('/payment/card'): no token is asked for
PostPaymentCard ==
    /\ UNCHANGED <<clientVars, overlap>>
    /\ \E tok \in Tokens, body \in PaymentBodies :
        Create("POST /payment/card", "payment", nextId,
               cardPayment(body, nextId, now), Authorized(tok))

\* app.put('/orders/:id'), up to kv.get
PutOrdersId ==
    /\ UNCHANGED <<clientVars, overlap>>
    /\ \E tok \in Tokens :
        IF ~Authorized(tok) THEN Unauthorized("PUT /orders/:id")
        ELSE \E id \in TargetIds, updates \in OrderUpdates :
          IF ~KvHas(kv, <<"order", id>>) THEN NotFound("PUT /orders/:id")
          ELSE Suspend("PUT /orders/:id", "order", id, updates)

\* app.put('/orders/:id'), from kv.set
PutOrdersIdWrite ==
    /\ UNCHANGED <<clientVars, overlap>>
    /\ \E r \in inflight :
        /\ r.op = "PUT /orders/:id"
        /\ Resume(r, updatedOrder(r.existing, r.updates, r.key[2], now))

\* app.post('/categories'): the id is the body's when it has one
PostCategories ==
    /\ UNCHANGED <<clientVars, overlap>>
    /\ \E tok \in Tokens :
        IF ~Authorized(tok) THEN Unauthorized("POST /categories")
        ELSE \E category \in CategoryBodies :
          LET id == categoryId(category, nextId)
             IN Create("POST /categories", "category", id,
                       newCategory(category, id, now), TRUE)

\* app.put('/categories/:id/toggle'), up to kv.get
PutCategoriesIdToggle ==
    /\ UNCHANGED <<clientVars, overlap>>
    /\ \E tok \in Tokens :
        IF ~Authorized(tok) THEN Unauthorized("PUT /categories/:id/toggle")
        ELSE \E id \in TargetIds :
          IF ~KvHas(kv, <<"category", id>>)
          THEN NotFound("PUT /categories/:id/toggle")
          ELSE Suspend("PUT /categories/:id/toggle", "category", id, EmptyRec)

\* A toggle that negates the flag stored at the time of its write
PutCategoriesIdToggleReread ==
    /\ UNCHANGED <<clientVars, overlap>>
    /\ \E r \in inflight :
        /\ r.op = "PUT /categories/:id/toggle"
        /\ Resume(r, updatedCategory(IF KvHas(kv, r.key) THEN kv[r.key] ELSE r.existing,
                                     now))

\* A toggle that also stamps the products of the table
PutCategoriesIdToggleCascade ==
    /\ UNCHANGED <<clientVars, overlap>>
    /\ \E r \in inflight :
        /\ r.op = "PUT /categories/:id/toggle"
        /\ kv' = [k \in (DOMAIN kv) \cup {r.key} |->
                     IF k = r.key THEN updatedCategory(r.existing, now)
                     ELSE IF k[1] = "product" THEN Spread(kv[k], [updatedAt |-> now])
                     ELSE kv[k]]
        /\ now' = now + 1
        /\ inflight' = inflight \ {r}
        /\ Respond(r.op, 200, TRUE)
        /\ UNCHANGED nextId

\* app.put('/categories/:id/toggle'), from kv.set
PutCategoriesIdToggleWrite ==
    /\ UNCHANGED <<clientVars, overlap>>
    /\ \E r \in inflight :
        /\ r.op = "PUT /categories/:id/toggle"
        /\ Resume(r, updatedCategory(r.existing, now))

\* app.delete('/categories/:id')
DeleteCategoriesId ==
    /\ UNCHANGED <<clientVars, overlap>>
    /\ \E tok \in Tokens :
        IF ~Authorized(tok) THEN Unauthorized("DELETE /categories/:id")
        ELSE \E id \in TargetIds :
          Delete("DELETE /categories/:id", "category", id)

\* A seeding loop: every item stored under a fresh id
Seed(op, prefix, items, stamped, authed) ==
    /\ now < MaxTime
    /\ kv' = SeedWrites(kv, prefix, items, nextId, now, stamped)
    /\ nextId' = nextId + Len(items)
    /\ now' = now + 1
    /\ Respond(op, 200, authed)

\* app.post('/categories/:categoryName/add-products')
PostCategoriesAddProducts ==
    /\ UNCHANGED <<clientVars, overlap>>
    /\ \E tok \in Tokens :
        IF ~Authorized(tok)
        THEN Unauthorized("POST /categories/:categoryName/add-products")
        ELSE \E categoryName \in CategoryNames :
          IF productsByCategory(categoryName) = <<>>
        THEN /\ Respond("POST /categories/:categoryName/add-products", 400, TRUE)
             /\ UNCHANGED <<kv, nextId, now, inflight>>
        ELSE /\ Seed("POST /categories/:categoryName/add-products", "product",
                     productsByCategory(categoryName), TRUE, TRUE)
             /\ UNCHANGED inflight

\* What a seeding handler found when it scanned the table
Scanned(op, stage, authed) ==
    [n |-> Request, op |-> op, key |-> <<stage, 0>>, updates |-> EmptyRec,
     existing |-> [authed |-> authed]]

\* app.post('/init-sample-data'), the prefix scans: no token is asked for
PostInitSampleData ==
    /\ UNCHANGED <<clientVars, overlap>>
    /\ \E tok \in Tokens :
        IF KeysByPrefix(kv, "product") = {}
        THEN /\ now + Cardinality(inflight) < MaxTime
             /\ Cardinality(inflight) < overlap
             /\ inflight' = inflight \cup
                    {Scanned("POST /init-sample-data", "product", Authorized(tok))}
             /\ UNCHANGED <<kv, nextId, now, last>>
        ELSE IF KeysByPrefix(kv, "delivery") = {}
        THEN /\ now + Cardinality(inflight) < MaxTime
             /\ Cardinality(inflight) < overlap
             /\ inflight' = inflight \cup
                    {Scanned("POST /init-sample-data", "delivery", Authorized(tok))}
             /\ UNCHANGED <<kv, nextId, now, last>>
        ELSE /\ Respond("POST /init-sample-data", 200, Authorized(tok))
             /\ UNCHANGED <<kv, nextId, now, inflight>>

\* app.post('/init-sample-data'), the writes: the sample products and then the
\* response, or the default locations when products were found
PostInitSampleDataWrite ==
    /\ UNCHANGED <<clientVars, overlap>>
    /\ \E r \in inflight :
        /\ r.op = "POST /init-sample-data"
        /\ IF r.key[1] = "product"
           THEN Seed(r.op, "product", sampleProducts, TRUE, r.existing.authed)
           ELSE Seed(r.op, "delivery", defaultLocations, FALSE, r.existing.authed)
        /\ inflight' = inflight \ {r}

\* app.post('/init-categories'), the prefix scan: no token is asked for
PostInitCategories ==
    /\ UNCHANGED <<clientVars, overlap>>
    /\ \E tok \in Tokens :
        IF KeysByPrefix(kv, "category") = {}
        THEN /\ now + Cardinality(inflight) < MaxTime
             /\ Cardinality(inflight) < overlap
             /\ inflight' = inflight \cup
                    {Scanned("POST /init-categories", "category", Authorized(tok))}
             /\ UNCHANGED <<kv, nextId, now, last>>
        ELSE /\ Respond("POST /init-categories", 200, Authorized(tok))
             /\ UNCHANGED <<kv, nextId, now, inflight>>

\* app.post('/init-categories'), the writes
PostInitCategoriesWrite ==
    /\ UNCHANGED <<clientVars, overlap>>
    /\ \E r \in inflight :
        /\ r.op = "POST /init-categories"
        /\ Seed(r.op, "category", defaultCategories, TRUE, r.existing.authed)
        /\ inflight' = inflight \ {r}

---------------------------------------------------------------------------
(* What the public GET routes answer *)

\* kv.getByPrefix: the records stored under a prefix, in the order of their ids
Listed(store, prefix) ==
    LET keys == KeysByPrefix(store, prefix)
        rank(k) == Cardinality({j \in keys : j[2] < k[2]}) + 1
    IN [i \in 1 .. Cardinality(keys) |-> store[CHOOSE k \in keys : rank(k) = i]]

\* app.get('/products')
GetProducts(store) == Listed(store, "product")

\* app.get('/categories/active'): allCategories.filter(cat => cat.active)
GetCategoriesActive(store) ==
    LET isActive(cat) == Truthy(cat, "active")
    IN SelectSeq(Listed(store, "category"), isActive)

\* app.get('/delivery-locations')
GetDeliveryLocations(store) == Listed(store, "delivery")

---------------------------------------------------------------------------
(* StoreFront: the product filter *)

SearchQueries == {"", "boots"}

CategoryFilters == {"all", "Dresses"}

SortModes == {"featured", "price-low", "price-high", "name"}

\* The positions the price slider is moved to
PriceRanges == {<<KES(0), KES(5000)>>}

\* text.toLowerCase().includes(query.toLowerCase()), for the texts of the model
IncludesLower(text, query) ==
    \/ query = ""
    \/ /\ query = "boots"
       /\ text \in {"Heritage Leather Boots", "Rugged leather boots", "Casual Boots"}

\* a.name.localeCompare(b.name) compares these ranks
LocaleRank(name) ==
    IF name = "Desk Lamp" THEN 1
    ELSE IF name = "Elegant Summer Dress" THEN 2
    ELSE IF name = "Heritage Leather Boots" THEN 3
    ELSE 4

\* The key the comparator of a sort mode orders by
SortKey(p, mode) ==
    IF mode = "price-low" THEN p.price
    ELSE IF mode = "price-high" THEN 0 - p.price
    ELSE IF mode = "name" THEN LocaleRank(p.name)
    ELSE IF mode = "featured" THEN (IF Truthy(p, "featured") THEN 0 ELSE 1)
    ELSE 0

\* A sort that is not stable: p goes before the elements that compare equal
RECURSIVE InsertSortedUnstable(_, _, _)
InsertSortedUnstable(sorted, p, mode) ==
    IF sorted = <<>> THEN <<p>>
    ELSE IF SortKey(sorted[Len(sorted)], mode) < SortKey(p, mode)
    THEN Append(sorted, p)
    ELSE Append(InsertSortedUnstable(SubSeq(sorted, 1, Len(sorted) - 1), p, mode),
                sorted[Len(sorted)])

\* Array.prototype.sort is stable: p goes behind every element that does not
\* compare greater
RECURSIVE InsertSorted(_, _, _)
InsertSorted(sorted, p, mode) ==
    IF sorted = <<>> THEN <<p>>
    ELSE IF SortKey(sorted[Len(sorted)], mode) <= SortKey(p, mode)
    THEN Append(sorted, p)
    ELSE Append(InsertSorted(SubSeq(sorted, 1, Len(sorted) - 1), p, mode),
                sorted[Len(sorted)])

RECURSIVE Sorted(_, _)
Sorted(list, mode) ==
    IF list = <<>> THEN <<>>
    ELSE InsertSorted(Sorted(SubSeq(list, 1, Len(list) - 1), mode),
                      list[Len(list)], mode)

\* A list with no fallback to the name: c.subcategories || []
subcategoriesOnly(c) ==
    IF Has(c, "subcategories") THEN c.subcategories ELSE <<>>

\* c.subcategories || [c.name]
subcategoriesOrName(c) ==
    IF Has(c, "subcategories") THEN c.subcategories ELSE <<c.name>>

\* categories.flatMap(c => c.subcategories || [c.name])
activeSubcategories(cats) ==
    UNION {Range(subcategoriesOrName(cats[i])) : i \in DOMAIN cats}

\* filterAndSortProducts
filterAndSortProducts(prods, cats, query, filter, mode, range) ==
    LET inActive(p) == p.category \in activeSubcategories(cats)
        matches(p) == \/ query = ""
                      \/ IncludesLower(p.name, query)
                      \/ IncludesLower(p.description, query)
                      \/ IncludesLower(p.category, query)
        inCategory(p) == filter = "all" \/ p.category = filter
        inRange(p) == p.price >= range[1] /\ p.price <= range[2]
        kept(p) == inActive(p) /\ matches(p) /\ inCategory(p) /\ inRange(p)
    IN Sorted(SelectSeq(prods, kept), mode)

\* Math.ceil(max / 1000) * 1000
CeilThousand(price) == ((price + KES(1000) - 1) \div KES(1000)) * KES(1000)

MaxOf(numbers) == CHOOSE m \in numbers : \A n \in numbers : n <= m

\* The filter effect: it runs when products, searchQuery, categoryFilter,
\* sortBy or priceRange has changed, and reads the categories of that render
FilterEffect ==
    filteredProducts' = filterAndSortProducts(products', categories, searchQuery',
                                              categoryFilter', sortBy', priceRange')

\* loadProducts, from the response on
LoadProducts ==
    /\ "products" \in fetches
    /\ fetches' = fetches \ {"products"}
    /\ \/ LET allProducts == GetProducts(kv)
          IN /\ products' = allProducts
             /\ priceRange' =
                    IF allProducts # <<>>
                    THEN <<0, CeilThousand(MaxOf({allProducts[i].price :
                                                   i \in DOMAIN allProducts}))>>
                    ELSE priceRange
             /\ UNCHANGED <<searchQuery, categoryFilter, sortBy>>
             /\ FilterEffect
       \/ UNCHANGED <<products, priceRange, searchQuery, categoryFilter, sortBy,
                      filteredProducts>>
    /\ UNCHANGED <<categories, serverVars, cartVars, wizardVars>>

\* loadCategories, from the response on: the filter effect does not depend
\* on categories
LoadCategories ==
    /\ "categories" \in fetches
    /\ fetches' = fetches \ {"categories"}
    /\ \/ categories' = GetCategoriesActive(kv)
       \/ UNCHANGED categories
    /\ UNCHANGED <<products, filteredProducts, searchQuery, categoryFilter, sortBy,
                   priceRange, serverVars, cartVars, wizardVars>>

\* The search box
SetSearchQuery ==
    /\ \E query \in SearchQueries :
        /\ query # searchQuery
        /\ searchQuery' = query
    /\ UNCHANGED <<products, categoryFilter, sortBy, priceRange>>
    /\ FilterEffect
    /\ UNCHANGED <<categories, fetches, serverVars, cartVars, wizardVars>>

\* The category select
SetCategoryFilter ==
    /\ \E filter \in CategoryFilters :
        /\ filter # categoryFilter
        /\ categoryFilter' = filter
    /\ UNCHANGED <<products, searchQuery, sortBy, priceRange>>
    /\ FilterEffect
    /\ UNCHANGED <<categories, fetches, serverVars, cartVars, wizardVars>>

\* The sort select
SetSortBy ==
    /\ \E mode \in SortModes :
        /\ mode # sortBy
        /\ sortBy' = mode
    /\ UNCHANGED <<products, searchQuery, categoryFilter, priceRange>>
    /\ FilterEffect
    /\ UNCHANGED <<categories, fetches, serverVars, cartVars, wizardVars>>

\* The price slider
SetPriceRange ==
    /\ \E range \in PriceRanges :
        /\ range # priceRange
        /\ priceRange' = range
    /\ UNCHANGED <<products, searchQuery, categoryFilter, sortBy>>
    /\ FilterEffect
    /\ UNCHANGED <<categories, fetches, serverVars, cartVars, wizardVars>>

---------------------------------------------------------------------------
(* StoreFront: the cart *)

DigitChars == <<"0", "1", "2", "3", "4", "5", "6", "7", "8", "9">>

\* Number.prototype.toString, for a natural number
RECURSIVE Digits(_)
Digits(n) ==
    IF n < 10 THEN <<DigitChars[n + 1]>>
    ELSE Append(Digits(n \div 10), DigitChars[(n % 10) + 1])

\* size.toString()
sizeToString(size) == IF size.t = "number" THEN Digits(size.n) ELSE size.s

IsDigit(c) == \E d \in DOMAIN DigitChars : DigitChars[d] = c

DigitValue(c) == (CHOOSE d \in DOMAIN DigitChars : DigitChars[d] = c) - 1

\* The digits a text starts with
RECURSIVE LeadingDigits(_)
LeadingDigits(chars) ==
    IF chars = <<>> THEN <<>>
    ELSE IF ~IsDigit(Head(chars)) THEN <<>>
    ELSE <<Head(chars)>> \o LeadingDigits(Tail(chars))

RECURSIVE DecimalValue(_)
DecimalValue(digits) ==
    IF digits = <<>> THEN 0
    ELSE DecimalValue(SubSeq(digits, 1, Len(digits) - 1)) * 10
             + DigitValue(digits[Len(digits)])

\* parseInt(text)
ParseInt(chars) ==
    IF LeadingDigits(chars) = <<>> THEN NaN
    ELSE Num(DecimalValue(LeadingDigits(chars)))

\* a === b on numbers: NaN equals nothing
StrictEq(a, b) == a.t # "NaN" /\ b.t # "NaN" /\ a = b

\* item.id === productId && item.selectedSize === size && item.selectedColor === color
SameLine(item, productId, size, color) ==
    /\ item.id = productId
    /\ StrictEq(item.selectedSize, size)
    /\ item.selectedColor = color

\* addToCart
addToCart(prevCart, product, size, color) ==
    IF \E i \in DOMAIN prevCart : SameLine(prevCart[i], product.id, size, color)
    THEN [i \in DOMAIN prevCart |->
             IF SameLine(prevCart[i], product.id, size, color)
             THEN Spread(prevCart[i], [quantity |-> prevCart[i].quantity + 1])
             ELSE prevCart[i]]
    ELSE Append(prevCart, Spread(product, [quantity |-> 1, selectedSize |-> size,
                                           selectedColor |-> color]))

\* removeFromCart
removeFromCart(prevCart, productId, size, color) ==
    LET others(item) == ~SameLine(item, productId, size, color)
    IN SelectSeq(prevCart, others)

\* updateCartQuantity
updateCartQuantity(prevCart, productId, size, color, quantity) ==
    IF quantity <= 0 THEN removeFromCart(prevCart, productId, size, color)
    ELSE [i \in DOMAIN prevCart |->
             IF SameLine(prevCart[i], productId, size, color)
             THEN Spread(prevCart[i], [quantity |-> quantity])
             ELSE prevCart[i]]

\* ProductCard.handleAddToCart with the size and color its selects hold:
\* onAddToCart(product, parseInt(selectedSize), selectedColor)
handleAddToCart(prevCart, product, selectedSize, selectedColor) ==
    IF selectedSize # <<>> /\ selectedColor # ""
    THEN addToCart(prevCart, product, ParseInt(selectedSize), selectedColor)
    ELSE prevCart

\* The Add to Cart button of a displayed product
AddToCart ==
    /\ ~showCheckout
    /\ \E i \in DOMAIN filteredProducts :
        LET product == filteredProducts[i]
        IN /\ ~(Has(product, "stock") /\ product.stock = 0)
           /\ \E s \in DOMAIN product.sizes, c \in DOMAIN product.colors :
                cart' = handleAddToCart(cart, product, sizeToString(product.sizes[s]),
                                        product.colors[c])
    /\ Len(cart') <= MaxLines
    /\ \A i \in DOMAIN cart' : cart'[i].quantity <= MaxQuantity
    /\ UNCHANGED <<cartOpen, serverVars, shopVars, wizardVars>>

\* The minus and plus buttons of a cart line
UpdateCartQuantity ==
    /\ cartOpen /\ ~showCheckout
    /\ \E i \in DOMAIN cart, change \in {-1, 1} :
        /\ cart[i].quantity + change <= MaxQuantity
        /\ cart' = updateCartQuantity(cart, cart[i].id, cart[i].selectedSize,
                                      cart[i].selectedColor,
                                      cart[i].quantity + change)
    /\ UNCHANGED <<cartOpen, serverVars, shopVars, wizardVars>>

\* The remove button of a cart line
RemoveFromCart ==
    /\ cartOpen /\ ~showCheckout
    /\ \E i \in DOMAIN cart :
        cart' = removeFromCart(cart, cart[i].id, cart[i].selectedSize,
                               cart[i].selectedColor)
    /\ UNCHANGED <<cartOpen, serverVars, shopVars, wizardVars>>

\* The cart button of the header: setCartOpen(true)
OpenCart ==
    /\ ~cartOpen /\ ~showCheckout
    /\ cartOpen' = TRUE
    /\ UNCHANGED <<cart, serverVars, shopVars, wizardVars>>

\* The sheet's onOpenChange: setCartOpen(false)
CloseCart ==
    /\ cartOpen /\ ~showCheckout
    /\ cartOpen' = FALSE
    /\ UNCHANGED <<cart, serverVars, shopVars, wizardVars>>

---------------------------------------------------------------------------
(* ShoppingCartPanel and CheckoutDialog *)

null == EmptyRec

CustomerFields ==
    <<"customerName", "customerEmail", "customerPhone", "deliveryAddress">>

CardFields == <<"cardNumber", "cardExpiry", "cardCvc", "cardName">>

noCustomer == [f \in Range(CustomerFields) |-> ""]

noCard == [f \in Range(CardFields) |-> ""]

\* What the customer types into a field
Typed(field) ==
    IF field = "customerName" THEN "Amina Otieno"
    ELSE IF field = "customerEmail" THEN "amina@example.com"
    ELSE IF field = "customerPhone" THEN "0712345678"
    ELSE IF field = "deliveryAddress" THEN "12 Moi Avenue"
    ELSE IF field = "mpesaPhone" THEN "254712345678"
    ELSE IF field = "cardNumber" THEN "4242424242424242"
    ELSE IF field = "cardExpiry" THEN "12/30"
    ELSE IF field = "cardCvc" THEN "123"
    ELSE "AMINA OTIENO"

\* cart.reduce((sum, item) => sum + item.price * item.quantity, 0)
RECURSIVE subtotal(_)
subtotal(items) ==
    IF items = <<>> THEN 0
    ELSE subtotal(SubSeq(items, 1, Len(items) - 1))
             + items[Len(items)].price * items[Len(items)].quantity

\* selectedLocation?.cost || 0
deliveryCost(location) ==
    IF location # null /\ Has(location, "cost") THEN location.cost ELSE 0

\* A tax of 16%: subtotal * 0.16
taxSixteen(items) == (subtotal(items) * 16) \div 100

\* subtotal * 0.08
tax(items) == (subtotal(items) * 8) \div 100

\* subtotal + deliveryCost + tax
total(items, location) == subtotal(items) + deliveryCost(location) + tax(items)

\* The body handlePayment posts to /orders
orderBody ==
    [customerName |-> customer.customerName,
     customerEmail |-> customer.customerEmail,
     customerPhone |-> customer.customerPhone,
     deliveryAddress |-> customer.deliveryAddress,
     deliveryLocation |-> selectedLocation,
     cart |-> cart,
     subtotal |-> subtotal(cart),
     deliveryCost |-> deliveryCost(selectedLocation),
     tax |-> tax(cart),
     total |-> total(cart, selectedLocation)]

\* A payment body that asks for the subtotal, without delivery and tax
paymentBodySubtotal(r, orderId) ==
    IF r.paymentMethod = "mpesa"
    THEN [phoneNumber |-> r.mpesaPhone, amount |-> r.body.subtotal, orderId |-> orderId]
    ELSE [cardDetails |-> r.card, amount |-> r.body.subtotal, orderId |-> orderId]

\* The body handlePayment posts to /payment/mpesa or /payment/card
paymentBody(r, orderId) ==
    IF r.paymentMethod = "mpesa"
    THEN [phoneNumber |-> r.mpesaPhone, amount |-> r.body.total, orderId |-> orderId]
    ELSE [cardDetails |-> r.card, amount |-> r.body.total, orderId |-> orderId]

\* The Proceed to Checkout button: setShowCheckout(true), and the effect on
\* open: loadLocations() and setStep('delivery')
ProceedToCheckout ==
    /\ cartOpen /\ cart # <<>> /\ ~showCheckout
    /\ locationFetches < MaxFetches
    /\ showCheckout' = TRUE
    /\ locationFetches' = locationFetches + 1
    /\ step' = "delivery"
    /\ UNCHANGED <<loading, locations, selectedLocation, paymentMethod, customer,
                   mpesaPhone, card, submissions, timers>>
    /\ UNCHANGED <<serverVars, shopVars, cartVars>>

\* The dialog's onOpenChange: setShowCheckout(false)
CloseCheckout ==
    /\ showCheckout
    /\ showCheckout' = FALSE
    /\ UNCHANGED <<step, loading, locations, selectedLocation, paymentMethod,
                   customer, mpesaPhone, card, locationFetches, submissions, timers>>
    /\ UNCHANGED <<serverVars, shopVars, cartVars>>

\* loadLocations, from the response on
LoadLocations ==
    /\ locationFetches > 0
    /\ locationFetches' = locationFetches - 1
    /\ \/ locations' = GetDeliveryLocations(kv)
       \/ UNCHANGED locations
    /\ UNCHANGED <<showCheckout, step, loading, selectedLocation, paymentMethod,
                   customer, mpesaPhone, card, submissions, timers>>
    /\ UNCHANGED <<serverVars, shopVars, cartVars>>

\* The delivery location select: setSelectedLocation(location || null)
SelectLocation ==
    /\ showCheckout /\ step = "delivery"
    /\ \E i \in DOMAIN locations : selectedLocation' = locations[i]
    /\ UNCHANGED <<showCheckout, step, loading, locations, paymentMethod, customer,
                   mpesaPhone, card, locationFetches, submissions, timers>>
    /\ UNCHANGED <<serverVars, shopVars, cartVars>>

\* The inputs of the delivery step, filled from the top
TypeCustomer ==
    /\ showCheckout /\ step = "delivery"
    /\ \E i \in DOMAIN CustomerFields :
        LET field == CustomerFields[i]
        IN /\ \A j \in 1 .. (i - 1) : customer[CustomerFields[j]] # ""
           /\ customer[field] = ""
           /\ customer' = [customer EXCEPT ![field] = Typed(field)]
    /\ UNCHANGED <<showCheckout, step, loading, locations, selectedLocation,
                   paymentMethod, mpesaPhone, card, locationFetches, submissions, timers>>
    /\ UNCHANGED <<serverVars, shopVars, cartVars>>

\* handleProceedToPayment
HandleProceedToPayment ==
    /\ showCheckout /\ step = "delivery"
    /\ IF \/ selectedLocation = null
          \/ \E i \in DOMAIN CustomerFields : customer[CustomerFields[i]] = ""
       THEN UNCHANGED step
       ELSE step' = "payment"
    /\ UNCHANGED <<showCheckout, loading, locations, selectedLocation, paymentMethod,
                   customer, mpesaPhone, card, locationFetches, submissions, timers>>
    /\ UNCHANGED <<serverVars, shopVars, cartVars>>

\* The payment method radio group
SetPaymentMethod ==
    /\ showCheckout /\ step = "payment"
    /\ \E method \in {"mpesa", "card"} :
        /\ method # paymentMethod
        /\ paymentMethod' = method
    /\ UNCHANGED <<showCheckout, step, loading, locations, selectedLocation, customer,
                   mpesaPhone, card, locationFetches, submissions, timers>>
    /\ UNCHANGED <<serverVars, shopVars, cartVars>>

\* The M-Pesa phone input
TypeMpesaPhone ==
    /\ showCheckout /\ step = "payment" /\ paymentMethod = "mpesa"
    /\ mpesaPhone = ""
    /\ mpesaPhone' = Typed("mpesaPhone")
    /\ UNCHANGED <<showCheckout, step, loading, locations, selectedLocation,
                   paymentMethod, customer, card, locationFetches, submissions, timers>>
    /\ UNCHANGED <<serverVars, shopVars, cartVars>>

\* The card inputs, filled from the top
TypeCard ==
    /\ showCheckout /\ step = "payment" /\ paymentMethod = "card"
    /\ \E i \in DOMAIN CardFields :
        LET field == CardFields[i]
        IN /\ \A j \in 1 .. (i - 1) : card[CardFields[j]] # ""
           /\ card[field] = ""
           /\ card' = [card EXCEPT ![field] = Typed(field)]
    /\ UNCHANGED <<showCheckout, step, loading, locations, selectedLocation,
                   paymentMethod, customer, mpesaPhone, locationFetches, submissions,
                   timers>>
    /\ UNCHANGED <<serverVars, shopVars, cartVars>>

\* The Back button of the payment step: setStep('delivery')
Back ==
    /\ showCheckout /\ step = "payment"
    /\ step' = "delivery"
    /\ UNCHANGED <<showCheckout, loading, locations, selectedLocation, paymentMethod,
                   customer, mpesaPhone, card, locationFetches, submissions, timers>>
    /\ UNCHANGED <<serverVars, shopVars, cartVars>>

\* The details handlePayment asks of the chosen method
MethodFilled ==
    IF paymentMethod = "mpesa" THEN mpesaPhone # ""
    ELSE \A i \in DOMAIN CardFields : card[CardFields[i]] # ""

\* A Pay button that is not disabled while loading
HandlePaymentEnabled ==
    /\ showCheckout /\ step = "payment"
    /\ IF ~MethodFilled
       THEN UNCHANGED <<loading, step, submissions>>
       ELSE /\ loading' = TRUE
            /\ step' = "processing"
            /\ submissions' = submissions \cup
                   {[pc |-> "order", body |-> orderBody, orderId |-> 0,
                     paymentMethod |-> paymentMethod, mpesaPhone |-> mpesaPhone,
                     card |-> card]}
    /\ UNCHANGED <<showCheckout, locations, selectedLocation, paymentMethod, customer,
                   mpesaPhone, card, locationFetches, timers>>
    /\ UNCHANGED <<serverVars, shopVars, cartVars>>

\* handlePayment, up to the fetch of /orders: the Pay button is disabled
\* while loading
HandlePayment ==
    /\ showCheckout /\ step = "payment" /\ ~loading
    /\ IF ~MethodFilled
       THEN UNCHANGED <<loading, step, submissions>>
       ELSE /\ loading' = TRUE
            /\ step' = "processing"
            /\ submissions' = submissions \cup
                   {[pc |-> "order", body |-> orderBody, orderId |-> 0,
                     paymentMethod |-> paymentMethod, mpesaPhone |-> mpesaPhone,
                     card |-> card]}
    /\ UNCHANGED <<showCheckout, locations, selectedLocation, paymentMethod, customer,
                   mpesaPhone, card, locationFetches, timers>>
    /\ UNCHANGED <<serverVars, shopVars, cartVars>>

\* A catch block that starts the wizard over: setStep('delivery')
PaymentFailedRestart(r) ==
    /\ step' = "delivery"
    /\ loading' = FALSE
    /\ submissions' = submissions \ {r}
    /\ UNCHANGED <<serverVars, timers>>

\* catch: setStep('payment'), and finally: setLoading(false)
PaymentFailed(r) ==
    /\ step' = "payment"
    /\ loading' = FALSE
    /\ submissions' = submissions \ {r}
    /\ UNCHANGED <<serverVars, timers>>

\* handlePayment, the answer of POST /orders
HandlePaymentOrder ==
    /\ \E r \in submissions :
        /\ r.pc = "order"
        /\ \/ /\ Cardinality(KeysByPrefix(kv, "order")) < MaxOrders
              /\ Stored("POST /orders", "order", nextId,
                        newOrder(r.body, nextId, now), FALSE)
              /\ submissions' = (submissions \ {r}) \cup
                     {[r EXCEPT !.pc = "payment", !.orderId = nextId]}
              /\ UNCHANGED <<step, loading, timers>>
           \/ PaymentFailed(r)
    /\ UNCHANGED <<showCheckout, locations, selectedLocation, paymentMethod, customer,
                   mpesaPhone, card, locationFetches>>
    /\ UNCHANGED <<shopVars, cartVars, overlap>>

\* handlePayment, the answer of POST /payment/mpesa or /payment/card
HandlePaymentPayment ==
    /\ \E r \in submissions :
        /\ r.pc = "payment"
        /\ \/ /\ IF r.paymentMethod = "mpesa"
                 THEN Stored("POST /payment/mpesa", "payment", nextId,
                             mpesaPayment(paymentBody(r, r.orderId), nextId, now), FALSE)
                 ELSE Stored("POST /payment/card", "payment", nextId,
                             cardPayment(paymentBody(r, r.orderId), nextId, now), FALSE)
              /\ submissions' = (submissions \ {r}) \cup {[r EXCEPT !.pc = "delay"]}
              /\ UNCHANGED <<step, loading, timers>>
           \/ PaymentFailed(r)
    /\ UNCHANGED <<showCheckout, locations, selectedLocation, paymentMethod, customer,
                   mpesaPhone, card, locationFetches>>
    /\ UNCHANGED <<shopVars, cartVars, overlap>>

\* handlePayment, after the two seconds: setStep('success'), the completion
\* timer, and finally: setLoading(false)
HandlePaymentSuccess ==
    /\ \E r \in submissions :
        /\ r.pc = "delay"
        /\ submissions' = submissions \ {r}
    /\ step' = "success"
    /\ timers' = timers + 1
    /\ loading' = FALSE
    /\ UNCHANGED <<showCheckout, locations, selectedLocation, paymentMethod, customer,
                   mpesaPhone, card, locationFetches>>
    /\ UNCHANGED <<serverVars, shopVars, cartVars>>

\* A completion timer whose onOrderComplete() leaves the cart as it is
CompletionTimerKeepsCart ==
    /\ timers > 0
    /\ timers' = timers - 1
    /\ cartOpen' = FALSE
    /\ showCheckout' = FALSE
    /\ step' = "delivery"
    /\ selectedLocation' = null
    /\ paymentMethod' = "mpesa"
    /\ customer' = noCustomer
    /\ mpesaPhone' = ""
    /\ card' = noCard
    /\ UNCHANGED <<cart, loading, locations, locationFetches, submissions>>
    /\ UNCHANGED <<serverVars, shopVars>>

\* The completion timer: onOrderComplete() clears the cart and closes the
\* cart panel, onClose() closes the dialog, resetForm() empties the wizard
CompletionTimer ==
    /\ timers > 0
    /\ timers' = timers - 1
    /\ cart' = <<>>
    /\ cartOpen' = FALSE
    /\ showCheckout' = FALSE
    /\ step' = "delivery"
    /\ selectedLocation' = null
    /\ paymentMethod' = "mpesa"
    /\ customer' = noCustomer
    /\ mpesaPhone' = ""
    /\ card' = noCard
    /\ UNCHANGED <<loading, locations, locationFetches, submissions>>
    /\ UNCHANGED <<serverVars, shopVars>>

---------------------------------------------------------------------------

\* The server before any request
InitServer ==
    /\ kv = EmptyRec
    /\ nextId = 1
    /\ now = 0
    /\ inflight = {}
    /\ overlap = 1
    /\ last = [op |-> "none", status |-> 0, authed |-> FALSE]

\* StoreFront once mounted: the mount effect has issued loadProducts() and
\* loadCategories(), and the filter effect has run on the empty list
InitShop ==
    /\ products = <<>>
    /\ categories = <<>>
    /\ filteredProducts = <<>>
    /\ searchQuery = ""
    /\ categoryFilter = "all"
    /\ sortBy = "featured"
    /\ priceRange = <<0, KES(50000)>>
    /\ fetches = {"products", "categories"}

\* ShoppingCartPanel and CheckoutDialog once mounted
InitWizard ==
    /\ showCheckout = FALSE
    /\ step = "delivery"
    /\ loading = FALSE
    /\ locations = <<>>
    /\ selectedLocation = null
    /\ paymentMethod = "mpesa"
    /\ customer = noCustomer
    /\ mpesaPhone = ""
    /\ card = noCard
    /\ locationFetches = 0
    /\ submissions = {}
    /\ timers = 0

Init ==
    /\ InitServer
    /\ InitShop
    /\ InitWizard
    /\ cart = <<>>
    /\ cartOpen = FALSE

\* The server letting MaxInflight handlers wait on the table at once
InitRace ==
    /\ kv = EmptyRec
    /\ nextId = 1
    /\ now = 0
    /\ inflight = {}
    /\ overlap = MaxInflight
    /\ last = [op |-> "none", status |-> 0, authed |-> FALSE]
    /\ InitShop
    /\ InitWizard
    /\ cart = <<>>
    /\ cartOpen = FALSE

\* The carts the checkout is given: lines addToCart has built
Carts ==
    { << Spread(newProduct(CHOOSE product \in ProductBodies : TRUE, 1, 0),
                [quantity |-> 2, selectedSize |-> NaN, selectedColor |-> "White"]) >>,
      << Spread(sampleProducts[1],
                [id |-> 2, createdAt |-> 0, updatedAt |-> 0, quantity |-> 1,
                 selectedSize |-> Num(8), selectedColor |-> "Black"]),
         Spread(sampleProducts[3],
                [id |-> 4, createdAt |-> 0, updatedAt |-> 0, quantity |-> 2,
                 selectedSize |-> NaN, selectedColor |-> "Red"]) >> }

\* The table once the admin has posted the delivery locations
stockedLocations ==
    [k \in {<<"delivery", i>> : i \in DOMAIN locationBodies} |->
        newLocation(locationBodies[k[2]], k[2])]

\* The checkout with a cart in hand: the locations are stored, the customer
\* has filled a cart and opened the cart panel
InitCheckout ==
    /\ kv = stockedLocations
    /\ nextId = Len(locationBodies) + 1
    /\ now = Len(locationBodies)
    /\ inflight = {}
    /\ overlap = 1
    /\ last = [op |-> "POST /delivery-locations", status |-> 200, authed |-> TRUE]
    /\ InitShop
    /\ InitWizard
    /\ cart \in Carts
    /\ cartOpen = TRUE

\* The handlers that create, update and delete single records
Crud ==
    \/ PostProducts
    \/ PutProductsId
    \/ PutProductsIdWrite
    \/ DeleteProductsId
    \/ PostDeliveryLocations
    \/ PutDeliveryLocationsId
    \/ PutDeliveryLocationsIdWrite
    \/ DeleteDeliveryLocationsId
    \/ PostOrders
    \/ PostPaymentMpesa
    \/ PostPaymentCard
    \/ PutOrdersId
    \/ PutOrdersIdWrite
    \/ PostCategories
    \/ PutCategoriesIdToggle
    \/ PutCategoriesIdToggleWrite
    \/ DeleteCategoriesId

\* The handlers that seed the table
Seeding ==
    \/ PostCategoriesAddProducts
    \/ PostInitSampleData
    \/ PostInitSampleDataWrite
    \/ PostInitCategories
    \/ PostInitCategoriesWrite

\* The handlers of the category routes, and of the routes that stock the
\* table beside them
Categories ==
    \/ PostCategories
    \/ PutCategoriesIdToggle
    \/ PutCategoriesIdToggleWrite
    \/ DeleteCategoriesId
    \/ PostInitCategories
    \/ PostInitCategoriesWrite
    \/ PostProducts
    \/ PostDeliveryLocations
    \/ PostOrders

\* The handlers that read a record and write it back, and the creates that
\* store the records they read
Racing ==
    \/ PostProducts
    \/ PutProductsId
    \/ PutProductsIdWrite
    \/ PostCategories
    \/ PutCategoriesIdToggle
    \/ PutCategoriesIdToggleWrite

\* The admin stocking the shop by hand, and the storefront loading it
Stocking ==
    \/ PostCategories
    \/ PutCategoriesIdToggle
    \/ PutCategoriesIdToggleWrite
    \/ PostProducts
    \/ LoadProducts
    \/ LoadCategories
    \/ SetSortBy

\* The two init routes
Initializing ==
    \/ PostInitSampleData
    \/ PostInitSampleDataWrite
    \/ PostInitCategories
    \/ PostInitCategoriesWrite

\* The handlers of the order and payment routes
Ordering ==
    \/ PostOrders
    \/ PostPaymentMpesa
    \/ PostPaymentCard
    \/ PutOrdersId
    \/ PutOrdersIdWrite

\* The storefront's product list over the routes that stock the shop
Shop ==
    \/ PostProducts
    \/ PostCategories
    \/ PostInitSampleData
    \/ PostInitSampleDataWrite
    \/ PostInitCategories
    \/ PostInitCategoriesWrite
    \/ LoadProducts
    \/ LoadCategories
    \/ SetSearchQuery
    \/ SetCategoryFilter
    \/ SetSortBy
    \/ SetPriceRange

\* The storefront's cart over the seeded shop
Shopping ==
    \/ PostInitSampleData
    \/ PostInitSampleDataWrite
    \/ PostInitCategories
    \/ PostInitCategoriesWrite
    \/ LoadProducts
    \/ LoadCategories
    \/ AddToCart
    \/ UpdateCartQuantity
    \/ RemoveFromCart
    \/ OpenCart
    \/ CloseCart

\* The checkout wizard and its requests
Checkout ==
    \/ ProceedToCheckout
    \/ CloseCheckout
    \/ LoadLocations
    \/ SelectLocation
    \/ TypeCustomer
    \/ HandleProceedToPayment
    \/ SetPaymentMethod
    \/ TypeMpesaPhone
    \/ TypeCard
    \/ Back
    \/ HandlePayment
    \/ HandlePaymentOrder
    \/ HandlePaymentPayment
    \/ HandlePaymentSuccess
    \/ CompletionTimer

Next == Crud \/ Seeding

\* Every route of the server
Spec == Init /\ [][Next]_vars

\* The routes of single records
SpecCrud == Init /\ [][Crud]_vars

\* The category routes
SpecCategories == Init /\ [][Categories]_vars

\* Updates of products and toggles of categories that overlap
SpecRace == InitRace /\ [][Racing]_vars

\* The storefront over a shop stocked by hand
SpecStock == Init /\ [][Stocking]_vars

\* Init requests that overlap
SpecInitRace == InitRace /\ [][Initializing]_vars

\* The order and payment routes
SpecOrders == Init /\ [][Ordering]_vars

\* The storefront's product list
SpecShop == Init /\ [][Shop]_vars

\* The storefront's cart
SpecCart == Init /\ [][Shopping]_vars

\* The checkout wizard
SpecCheckout == InitCheckout /\ [][Checkout]_vars

\* The checkout wizard, with the timers of setTimeout firing in the end
SpecCheckoutFair == SpecCheckout /\ WF_vars(CompletionTimer)

---------------------------------------------------------------------------
(* Orders *)

OrderKeys == KeysByPrefix(kv, "order")

\* C1 (as claimed): every stored order has total = subtotal + deliveryCost + tax
\* and tax = 8% of subtotal, whatever was posted or put.
C1_OrderTotalsAlways ==
    \A k \in OrderKeys :
        /\ kv[k].total = kv[k].subtotal + kv[k].deliveryCost + kv[k].tax
        /\ kv[k].tax * 100 = kv[k].subtotal * 8

\* C8 (as claimed): the status of every stored order is one of the five
\* order statuses, whatever was posted or put.
C8_StatusAlwaysKnown ==
    \A k \in OrderKeys : kv[k].status \in OrderStatuses

---------------------------------------------------------------------------
(* Categories *)

\* The suspended handlers that write in this step
Resumed == inflight \ inflight'

\* Nothing but key is written in this step
OnlyWrites(key) ==
    \A k \in (DOMAIN kv) \cup (DOMAIN kv') :
        k # key => (k \in DOMAIN kv /\ k \in DOMAIN kv' /\ kv'[k] = kv[k])

\* C4 (as claimed): a category whose stored active flag is true is never
\* removed by DELETE /categories/:id.
C4_ActiveNeverDeleted ==
    [][\A k \in KeysByPrefix(kv, "category") :
          (Truthy(kv[k], "active") /\ last'.op = "DELETE /categories/:id")
              => k \in DOMAIN kv']_vars

\* C6: PUT /categories/:id/toggle writes the one key category:<id>; every
\* other record of the table is the same before and after, and nothing is
\* written before the handler's kv.set.
C6_ToggleWritesOneKey ==
    [][/\ PutCategoriesIdToggle => kv' = kv
       /\ \A r \in Resumed :
             r.op = "PUT /categories/:id/toggle"
                 => (r.key[1] = "category" /\ OnlyWrites(r.key))]_vars

\* C6, reached: a toggle has been answered while products and other
\* categories are stored, and a category is inactive.
C6_Toggled ==
    /\ last.op = "PUT /categories/:id/toggle"
    /\ last.status = 200
    /\ KeysByPrefix(kv, "product") # {}
    /\ Cardinality(KeysByPrefix(kv, "category")) > 1
    /\ ActiveCategoryKeys(kv) # KeysByPrefix(kv, "category")

---------------------------------------------------------------------------
(* Authorization *)

\* The routes that take no token by design
OpenRoutes == {"POST /orders", "POST /payment/mpesa", "POST /payment/card"}

\* C5 (as claimed): outside order and payment creation, a request without a
\* token that resolves to a user is answered 401 and writes nothing.
C5_WritesNeedToken ==
    [][/\ kv' # kv => (last'.authed \/ last'.op \in OpenRoutes)
       /\ (last' # last /\ ~last'.authed /\ last'.op \notin OpenRoutes)
              => last'.status = 401]_vars

---------------------------------------------------------------------------
(* The cart *)

\* The lines of a cart that hold a product in a size and a color
LinesOf(list, productId, size, color) ==
    {j \in DOMAIN list : /\ list[j].id = productId
                         /\ list[j].selectedSize = size
                         /\ list[j].selectedColor = color}

\* C2 (as claimed): for every displayed product and every size and color its
\* selects offer, when the cart has no line of that key, one click on Add to
\* Cart appends one line of quantity 1 and a second click leaves exactly one
\* line of that key, of quantity 2.
C2_SameKeyMerges ==
    \A i \in DOMAIN filteredProducts :
        LET product == filteredProducts[i]
        IN \A s \in DOMAIN product.sizes, c \in DOMAIN product.colors :
            LET picked == sizeToString(product.sizes[s])
                color == product.colors[c]
                once == handleAddToCart(cart, product, picked, color)
                twice == handleAddToCart(once, product, picked, color)
                key(list) == LinesOf(list, product.id, ParseInt(picked), color)
            IN key(cart) = {} =>
                  /\ Len(once) = Len(cart) + 1
                  /\ once[Len(once)].quantity = 1
                  /\ Cardinality(key(twice)) = 1
                  /\ \A j \in key(twice) : twice[j].quantity = 2

---------------------------------------------------------------------------
(* The displayed products *)

\* The filter effect runs in this step: one of its dependencies has changed
FilterInputsChanged ==
    <<products, searchQuery, categoryFilter, sortBy, priceRange>>' #
        <<products, searchQuery, categoryFilter, sortBy, priceRange>>

\* No search text, category filter 'all', a price range that covers every price
Unfiltered ==
    /\ searchQuery = ""
    /\ categoryFilter = "all"
    /\ \A i \in DOMAIN products :
           products[i].price >= priceRange[1] /\ products[i].price <= priceRange[2]

\* p's category is in the subcategory list of a loaded active category
ListedUnderActive(p, cats) ==
    \E i \in DOMAIN cats :
        Has(cats[i], "subcategories") /\ p.category \in Range(cats[i].subcategories)

\* p's category is the name of a loaded active category that has no
\* subcategory list
NamesActive(p, cats) ==
    \E i \in DOMAIN cats :
        ~Has(cats[i], "subcategories") /\ p.category = cats[i].name

---------------------------------------------------------------------------
(* The checkout *)

\* The sum of price x quantity over the lines of a cart
RECURSIVE LineSum(_, _)
LineSum(items, n) ==
    IF n = 0 THEN 0 ELSE LineSum(items, n - 1) + items[n].price * items[n].quantity

\* The totals of an order body are those of its own cart and location
TotalsOf(order) ==
    /\ order.subtotal = LineSum(order.cart, Len(order.cart))
    /\ order.deliveryCost =
           IF order.deliveryLocation = null THEN 0 ELSE order.deliveryLocation.cost
    /\ order.tax * 100 = order.subtotal * 8
    /\ order.total = order.subtotal + order.deliveryCost + order.tax

OrderBodyFields ==
    {"customerName", "customerEmail", "customerPhone", "deliveryAddress",
     "deliveryLocation", "cart", "subtotal", "deliveryCost", "tax", "total"}

\* C7: the body handlePayment submits holds the cart and the selected location
\* of the moment of the click and the subtotal, delivery cost, 8% tax and
\* total computed from them, and the order stored for it holds the same values.
C7_TotalsSubmitted ==
    [][/\ \A r \in submissions' \ submissions :
              r.pc = "order" =>
                  /\ r.body.cart = cart
                  /\ r.body.deliveryLocation = selectedLocation
                  /\ TotalsOf(r.body)
       /\ \A k \in KeysByPrefix(kv', "order") \ KeysByPrefix(kv, "order") :
              /\ TotalsOf(kv'[k])
              /\ \E r \in submissions :
                     /\ r.pc = "order"
                     /\ \A f \in OrderBodyFields : kv'[k][f] = r.body[f]]_vars

\* C7, reached: the order of the cart [{price 1000, quantity 2}] with a
\* delivery cost of 0 is stored with subtotal 2000, tax 160 and total 2160,
\* and another order is stored with a delivery cost above 0.
C7_ExampleStored ==
    /\ \E k \in OrderKeys :
           /\ Len(kv[k].cart) = 1
           /\ kv[k].cart[1].price = KES(1000)
           /\ kv[k].cart[1].quantity = 2
           /\ kv[k].subtotal = KES(2000)
           /\ kv[k].deliveryCost = 0
           /\ kv[k].tax = KES(160)
           /\ kv[k].total = KES(2160)
    /\ \E k \in OrderKeys : kv[k].deliveryCost > 0

Filled(fields, names) == \A i \in DOMAIN names : fields[names[i]] # ""

\* C9 (as claimed): the step becomes 'payment' only from 'delivery' with a
\* location selected and the four customer fields filled, or from
\* 'processing'; it becomes 'processing' only from 'payment' with the details
\* of the chosen method filled; it becomes 'success' only from 'processing'.
C9_LinearFlow ==
    [][/\ (step' = "payment" /\ step # "payment") =>
              \/ step = "processing"
              \/ /\ step = "delivery"
                 /\ selectedLocation # null
                 /\ Filled(customer, CustomerFields)
       /\ (step' = "processing" /\ step # "processing") =>
              (step = "payment" /\ MethodFilled)
       /\ (step' = "success" /\ step # "success") => step = "processing"]_vars

---------------------------------------------------------------------------
(* Updates *)

MergingRoutes ==
    {"PUT /products/:id", "PUT /delivery-locations/:id", "PUT /orders/:id"}

StampingRoutes == {"PUT /products/:id", "PUT /orders/:id"}

\* C10 (as claimed): the stored record has the body's value in every field
\* of the body, the value read in every other field, and the path id.
C10_MergeKeepsEveryField ==
    [][\A r \in Resumed :
          r.op \in MergingRoutes =>
              /\ r.key \in DOMAIN kv'
              /\ kv'[r.key].id = r.key[2]
              /\ \A f \in (DOMAIN r.updates) \ {"id"} :
                     kv'[r.key][f] = r.updates[f]
              /\ \A f \in (DOMAIN r.existing) \ ((DOMAIN r.updates) \cup {"id"}) :
                     kv'[r.key][f] = r.existing[f]]_vars

\* C10 (amended): as above for every field but updatedAt, which the product
\* and order routes set to the time of the update; the stored record has no
\* field beyond those of the record read, the body, id and that stamp.
C10_MergeKeepsFields ==
    [][\A r \in Resumed :
          r.op \in MergingRoutes =>
              LET stamp == IF r.op \in StampingRoutes THEN {"updatedAt"} ELSE {}
              IN /\ r.key \in DOMAIN kv'
                 /\ DOMAIN kv'[r.key] =
                        (DOMAIN r.existing) \cup (DOMAIN r.updates) \cup {"id"} \cup stamp
                 /\ kv'[r.key].id = r.key[2]
                 /\ \A f \in stamp : kv'[r.key][f] = now
                 /\ \A f \in (DOMAIN r.updates) \ ({"id"} \cup stamp) :
                        kv'[r.key][f] = r.updates[f]
                 /\ \A f \in (DOMAIN r.existing) \ ((DOMAIN r.updates) \cup {"id"} \cup stamp) :
                        kv'[r.key][f] = r.existing[f]]_vars

\* C10, reached: PUT /products/:id has been answered and a product is stored
\* under its path id with a stamp later than its creation.
C10_ProductUpdated ==
    /\ last.op = "PUT /products/:id"
    /\ last.status = 200
    /\ \E k \in KeysByPrefix(kv, "product") :
           kv[k].updatedAt > kv[k].createdAt /\ kv[k].id = k[2]

---------------------------------------------------------------------------
(* Creation *)

CreateRoutes ==
    {"POST /products", "POST /delivery-locations", "POST /orders",
     "POST /categories", "POST /payment/mpesa", "POST /payment/card"}

\* C11 (as claimed): a create request that is served stores its record under
\* the identifier generated for it and leaves every record already stored as
\* it was, whatever the body holds.
C11_CreateKeepsStored ==
    [][(last'.op \in CreateRoutes /\ kv' # kv) =>
           /\ \A k \in DOMAIN kv : k \in DOMAIN kv' /\ kv'[k] = kv[k]
           /\ \A k \in (DOMAIN kv') \ (DOMAIN kv) : k[2] = nextId]_vars

\* The keys whose record a step stores or replaces
Touched == {k \in DOMAIN kv' : k \notin DOMAIN kv \/ kv'[k] # kv[k]}

\* C11 (amended): a create request that is served removes nothing and stores
\* one record, under its own id; but for POST /categories that id is the
\* generated one and no record was stored under it, whatever the body holds;
\* POST /categories may store under an id other than the generated one, and
\* then may replace the category stored under it, and no other record.
C11_CreateKeepsOthers ==
    [][(last'.op \in CreateRoutes /\ kv' # kv) =>
           /\ DOMAIN kv \subseteq DOMAIN kv'
           /\ Cardinality(Touched) = 1
           /\ \A k \in Touched :
                  /\ kv'[k].id = k[2]
                  /\ \/ k[2] = nextId /\ k \notin DOMAIN kv
                     \/ last'.op = "POST /categories" /\ k[1] = "category"]_vars

\* C11, reached: two POST /categories have been served and one category is
\* stored: the second, whose body carries id 1, has replaced category 1, and
\* the record holds the fields of that body and the stamp of the second.
C11_CategoryReplaced ==
    /\ last = [op |-> "POST /categories", status |-> 200, authed |-> TRUE]
    /\ now = 2 /\ nextId = 3
    /\ DOMAIN kv = {<<"category", 1>>}
    /\ ~Has(kv[<<"category", 1>>], "description")
    /\ kv[<<"category", 1>>].updatedAt = 1

---------------------------------------------------------------------------
(* Orders keep their snapshot *)

CatalogueRoutes ==
    {"PUT /products/:id", "DELETE /products/:id",
     "PUT /delivery-locations/:id", "DELETE /delivery-locations/:id"}

\* C12: an update or a delete of a product or of a delivery location leaves
\* every stored order as it was, its cart lines and its copy of the delivery
\* location included.
C12_OrdersKeepSnapshot ==
    [][(last'.op \in CatalogueRoutes /\ kv' # kv) =>
           \A k \in OrderKeys : k \in DOMAIN kv' /\ kv'[k] = kv[k]]_vars

\* C12, reached: product 1 was stored, order 2 was posted with a line of it,
\* and the third write, a delete, has removed the product: the order is the
\* only record left and still holds the line and its copy of a delivery
\* location that is not stored.
C12_LineOutlivesProduct ==
    /\ last.op = "DELETE /products/:id"
    /\ last.status = 200
    /\ now = 3 /\ nextId = 3
    /\ DOMAIN kv = {<<"order", 2>>}
    /\ \E k \in OrderKeys :
           /\ Has(kv[k], "cart") /\ Has(kv[k], "deliveryLocation")
           /\ \E i \in DOMAIN kv[k].cart :
                  /\ ~KvHas(kv, <<"product", kv[k].cart[i].id>>)
                  /\ kv[k].cart[i].price = KES(1000)
           /\ ~KvHas(kv, <<"delivery", kv[k].deliveryLocation.id>>)

---------------------------------------------------------------------------
(* Updates of what is not stored *)

PutRoutes == MergingRoutes \cup {"PUT /categories/:id/toggle"}

\* C13: an authenticated update or toggle of an id with no stored record is
\* answered 404 and leaves the table as it was: a 404 changes nothing, a
\* handler goes on to its write only with the record it read, and an
\* update writes only for such a handler, under no key but the one it read.
C13_MissingAnswers404 ==
    [][/\ (last' # last /\ last'.op \in PutRoutes /\ last'.status = 404) =>
              /\ last'.authed
              /\ kv' = kv
              /\ inflight' = inflight
       /\ \A r \in inflight' \ inflight :
              r.op \in PutRoutes => KvHas(kv, r.key) /\ r.existing = kv[r.key]
       /\ (kv' # kv /\ last'.op \in PutRoutes) =>
              \E r \in Resumed :
                  /\ r.op = last'.op
                  /\ r.existing # EmptyRec
                  /\ (DOMAIN kv') \ (DOMAIN kv) \subseteq {r.key}]_vars

\* C13, reached: an authenticated update of a product id that is not stored
\* has been answered 404 while another product is stored.
C13_NotFoundAnswered ==
    /\ last = [op |-> "PUT /products/:id", status |-> 404, authed |-> TRUE]
    /\ KeysByPrefix(kv, "product") # {}
    /\ inflight = {}

---------------------------------------------------------------------------
(* Updates that overlap *)

\* What the handler r stores at instant t, from the record it read
Written(r, t) ==
    IF r.op = "PUT /products/:id"
    THEN updatedProduct(r.existing, r.updates, r.key[2], t)
    ELSE IF r.op = "PUT /delivery-locations/:id"
    THEN updatedLocation(r.existing, r.updates, r.key[2])
    ELSE IF r.op = "PUT /orders/:id"
    THEN updatedOrder(r.existing, r.updates, r.key[2], t)
    ELSE updatedCategory(r.existing, t)

---------------------------------------------------------------------------
(* The featured sort *)

\* The products that pass the filters, in the order of the loaded list
Filtered ==
    filterAndSortProducts(products, categories, searchQuery, categoryFilter,
                          "none", priceRange)

\* The place of a displayed product in the loaded list
Loaded(p) == CHOOSE i \in DOMAIN products : products[i] = p

\* C15: with sort mode 'featured' the displayed list holds each filtered
\* product once and nothing else, every featured product before every product
\* that is not, and within either group the products in the order of the
\* loaded list.
C15_FeaturedFirst ==
    sortBy = "featured" =>
        /\ \A i \in DOMAIN filteredProducts : filteredProducts[i] \in Range(products)
        /\ \A i, j \in DOMAIN filteredProducts :
               i # j => filteredProducts[i] # filteredProducts[j]
        /\ filteredProducts # <<>> => Range(filteredProducts) = Range(Filtered)
        /\ \A i, j \in DOMAIN filteredProducts :
               i < j =>
                   LET a == filteredProducts[i]
                       b == filteredProducts[j]
                   IN /\ ~(~Truthy(a, "featured") /\ Truthy(b, "featured"))
                      /\ Truthy(a, "featured") = Truthy(b, "featured") =>
                             Loaded(a) < Loaded(b)

\* C15, reached: three products are displayed in mode 'featured' and the
\* loaded list holds one that is not featured before one that is.
C15_FeaturedMoved ==
    /\ sortBy = "featured"
    /\ Len(filteredProducts) = 3
    /\ \E i, j \in DOMAIN products :
           /\ i < j
           /\ ~Truthy(products[i], "featured") /\ Truthy(products[j], "featured")
           /\ {products[i], products[j]} \subseteq Range(filteredProducts)

---------------------------------------------------------------------------
(* Categories without subcategories *)

\* p's category is the name of a loaded active category whose subcategory
\* list is absent or empty
NamesBare(p, cats) ==
    \E i \in DOMAIN cats :
        /\ Truthy(cats[i], "active")
        /\ ~Has(cats[i], "subcategories") \/ cats[i].subcategories = <<>>
        /\ p.category = cats[i].name

\* C16 (as claimed): when the storefront recomputes its list with no search
\* text, filter 'all' and a covering price range, every loaded product whose
\* category is the name of an active category without subcategories, the
\* list absent or empty, is displayed.
C16_BareNameShown ==
    [][(FilterInputsChanged /\ Unfiltered') =>
          \A i \in DOMAIN products' :
              NamesBare(products'[i], categories') =>
                  products'[i] \in Range(filteredProducts')]_vars

---------------------------------------------------------------------------
(* Payments *)

PaymentKeys == KeysByPrefix(kv, "payment")

\* C17: every stored payment has status 'pending' and method 'mpesa' or
\* 'card', and no step of any handler changes or removes a stored payment.
C17_PaymentsStayPending ==
    /\ [](\A k \in PaymentKeys :
              kv[k].status = "pending" /\ kv[k].method \in {"mpesa", "card"})
    /\ [][\A k \in PaymentKeys : k \in DOMAIN kv' /\ kv'[k] = kv[k]]_vars

\* C17, reached: an order was posted, a payment was posted for it, and the
\* order has since been updated to 'shipped': the payment is as it was stored.
C17_OrderMovedOn ==
    /\ last = [op |-> "PUT /orders/:id", status |-> 200, authed |-> TRUE]
    /\ \E k \in PaymentKeys :
           /\ kv[k].status = "pending"
           /\ kv[k].createdAt < now - 1
           /\ KvHas(kv, <<"order", kv[k].orderId>>)
           /\ kv[<<"order", kv[k].orderId>>].status = "shipped"

---------------------------------------------------------------------------
(* Toggles *)

\* Two records agree in every field but active and updatedAt
SameButFlag(a, b) ==
    /\ (DOMAIN a) \cup {"active", "updatedAt"} = (DOMAIN b) \cup {"active", "updatedAt"}
    /\ \A f \in (DOMAIN a) \ {"active", "updatedAt"} : a[f] = b[f]

\* C18: a toggle stores, under the key it read, the record it read with the
\* active flag negated and every field but active and updatedAt as it was; a
\* second toggle of the record just stored gives back the active value the
\* first one read, again with those fields as they were.
C18_ToggleNegates ==
    [][\A r \in Resumed :
          r.op = "PUT /categories/:id/toggle" =>
              /\ r.key \in DOMAIN kv'
              /\ kv'[r.key].active = ~r.existing.active
              /\ SameButFlag(kv'[r.key], r.existing)
              /\ LET again == updatedCategory(kv'[r.key], now')
                 IN /\ again.active = r.existing.active
                    /\ SameButFlag(again, r.existing)]_vars

\* C18, reached: category 1 was posted active by a body with an id and has
\* been toggled twice, one toggle after the other: it is active again, with
\* the stamp of the second toggle.
C18_ToggledTwice ==
    /\ last = [op |-> "PUT /categories/:id/toggle", status |-> 200, authed |-> TRUE]
    /\ inflight = {}
    /\ now = 3 /\ nextId = 2
    /\ KvHas(kv, <<"category", 1>>)
    /\ ~Has(kv[<<"category", 1>>], "description")
    /\ kv[<<"category", 1>>].active = TRUE
    /\ kv[<<"category", 1>>].updatedAt = 2

---------------------------------------------------------------------------
(* The two requests of the mount effect *)

\* C19 (as claimed): once GET /products and GET /categories/active have both
\* answered with what is stored, the displayed list is the filter-and-sort
\* result of the loaded products and the loaded active categories, whichever
\* answered first.
C19_ListFollowsLoads ==
    (fetches = {} /\ products # <<>> /\ categories # <<>>) =>
        filteredProducts =
            filterAndSortProducts(products, categories, searchQuery, categoryFilter,
                                  sortBy, priceRange)

---------------------------------------------------------------------------
(* Seeding *)

\* The names of the records stored under a prefix
NamesStored(store, prefix) == {store[k].name : k \in KeysByPrefix(store, prefix)}

\* C20 (as claimed): when POST /init-sample-data answers success on a table
\* with no product and no delivery location, the table then holds the sample
\* products and the default delivery locations.
C20_SeedStoresLocations ==
    [][\A r \in Resumed :
          ( /\ r.op = "POST /init-sample-data"
            /\ KeysByPrefix(kv, "product") = {}
            /\ KeysByPrefix(kv, "delivery") = {}
            /\ last'.status = 200 ) =>
              /\ NamesStored(kv', "product") =
                     {sampleProducts[i].name : i \in DOMAIN sampleProducts}
              /\ NamesStored(kv', "delivery") =
                     {defaultLocations[i].name : i \in DOMAIN defaultLocations}]_vars

---------------------------------------------------------------------------
(* Init requests that overlap *)

\* The records stored under a prefix with a given name
Copies(prefix, name) == {k \in KeysByPrefix(kv, prefix) : kv[k].name = name}

\* C21 (as claimed): on a table that was empty and has served init requests
\* only, whatever the order of their scans and writes, no default category,
\* sample product or default delivery location is stored twice, and once the
\* init requests have all answered the categories stored are the five
\* default ones.
C21_SeededOnce ==
    /\ \A i \in DOMAIN defaultCategories :
           Cardinality(Copies("category", defaultCategories[i].name)) <= 1
    /\ \A i \in DOMAIN sampleProducts :
           Cardinality(Copies("product", sampleProducts[i].name)) <= 1
    /\ \A i \in DOMAIN defaultLocations :
           Cardinality(Copies("delivery", defaultLocations[i].name)) <= 1
    /\ (inflight = {} /\ KeysByPrefix(kv, "category") # {}) =>
           Cardinality(KeysByPrefix(kv, "category")) = Len(defaultCategories)

---------------------------------------------------------------------------
(* Deleted records *)

\* C22 (as claimed): a product or delivery-location id that has been handed
\* out and is not stored, its record having been deleted, is not stored in
\* the next state either: no step brings a deleted record back, an update
\* that had read it before the delete included.
C22_DeletedStaysDeleted ==
    [][\A id \in 1 .. (nextId - 1) :
          \A prefix \in {"product", "delivery"} :
              ~KvHas(kv, <<prefix, id>>) => ~KvHas(kv', <<prefix, id>>)]_vars

---------------------------------------------------------------------------
(* The requests of a submission *)

\* C23: the step becomes 'success' only for a submission whose order is
\* stored as it was posted and whose payment, of the method chosen at the
\* click, is stored with the id of that order and its total as amount; and a
\* payment is stored only for an order that is already stored.
C23_SuccessAfterBoth ==
    [][/\ (step' = "success" /\ step # "success") =>
              \E r \in submissions \ submissions' :
                  /\ KvHas(kv, <<"order", r.orderId>>)
                  /\ \A f \in OrderBodyFields :
                         kv[<<"order", r.orderId>>][f] = r.body[f]
                  /\ \E p \in PaymentKeys :
                         /\ kv[p].orderId = r.orderId
                         /\ kv[p].amount = kv[<<"order", r.orderId>>].total
                         /\ kv[p].method = r.paymentMethod
       /\ \A p \in KeysByPrefix(kv', "payment") \ PaymentKeys :
              /\ KvHas(kv, <<"order", kv'[p].orderId>>)
              /\ \E r \in submissions : r.pc = "payment" /\ r.orderId = kv'[p].orderId]_vars

\* C23, reached: the wizard shows 'success' and the one order stored has a
\* card payment of its total, delivery included.
C23_PaidByCard ==
    /\ step = "success"
    /\ Cardinality(OrderKeys) = 1
    /\ \E k \in OrderKeys, p \in PaymentKeys :
           /\ kv[p].method = "card"
           /\ kv[p].orderId = k[2]
           /\ kv[p].amount = kv[k].total
           /\ kv[k].deliveryCost > 0

---------------------------------------------------------------------------
(* One order for a cart *)

\* C24 (as claimed): when the wizard shows 'success' for the cart it was
\* given, one order and one payment have been stored for that cart, whatever
\* attempts failed before and however often the dialog was closed and opened.
C24_OneOrderForCart ==
    step = "success" =>
        /\ Cardinality(OrderKeys) = 1
        /\ Cardinality(PaymentKeys) = 1

---------------------------------------------------------------------------
(* A submission that fails *)

\* The submission r ends in this step without going on to its next request
FailsNow(r) ==
    /\ r \in submissions
    /\ r.pc \in {"order", "payment"}
    /\ submissions' = submissions \ {r}

\* C25: when the order request or the payment request of a submission fails,
\* the step becomes 'payment' and loading false, the cart, the customer
\* fields, the payment fields, the method and the location are as they were,
\* no completion timer is scheduled and nothing is stored.
C25_FailureKeepsEntries ==
    [][\A r \in submissions :
          FailsNow(r) =>
              /\ step' = "payment"
              /\ loading' = FALSE
              /\ timers' = timers
              /\ <<cart, cartOpen, showCheckout>>' = <<cart, cartOpen, showCheckout>>
              /\ <<customer, mpesaPhone, card, paymentMethod, selectedLocation>>' =
                     <<customer, mpesaPhone, card, paymentMethod, selectedLocation>>
              /\ kv' = kv]_vars

\* C25, reached: an order is stored without a payment and no submission is in
\* flight, its payment request having failed: the wizard is open at the
\* payment step, not loading, with the cart and the M-Pesa number in place.
C25_PaymentFailed ==
    /\ OrderKeys # {} /\ PaymentKeys = {}
    /\ submissions = {}
    /\ showCheckout /\ step = "payment" /\ ~loading
    /\ cart # <<>>
    /\ mpesaPhone # ""
    /\ timers = 0

---------------------------------------------------------------------------
(* The completion of a checkout *)

\* The cart is empty, the dialog and the cart panel are closed and the wizard
\* is as it was mounted
Completed ==
    /\ cart = <<>>
    /\ ~showCheckout /\ ~cartOpen
    /\ step = "delivery"
    /\ selectedLocation = null
    /\ paymentMethod = "mpesa"
    /\ customer = noCustomer
    /\ mpesaPhone = ""
    /\ card = noCard

\* C26: once the wizard shows 'success', the cart is in the end empty, the
\* dialog and the cart panel closed and the wizard reset; and the checkout
\* changes the cart only by emptying it, in a step of the timer that a
\* success has scheduled.
C26_SuccessCompletes ==
    /\ (step = "success") ~> Completed
    /\ [][cart' # cart => (timers > 0 /\ timers' = timers - 1 /\ cart' = <<>>)]_vars

\* C26, reached: an order and its payment are stored, the timer has fired and
\* the checkout is completed.
C26_TimerFired ==
    /\ Completed
    /\ OrderKeys # {} /\ PaymentKeys # {}
    /\ timers = 0 /\ submissions = {}

---------------------------------------------------------------------------
(* One submission at a time *)

\* C27: at most one handlePayment call is in flight, and loading is true
\* exactly while one is, whatever the customer has done with the dialog.
C27_OneSubmission ==
    /\ Cardinality(submissions) <= 1
    /\ loading <=> submissions # {}

\* C27, reached: while a submission is in flight the customer has closed and
\* opened the dialog and gone on to the payment step again, with the details
\* of the method filled: the wizard is loading and the Pay button disabled.
C27_BackAtPayment ==
    /\ submissions # {}
    /\ showCheckout /\ step = "payment"
    /\ MethodFilled
    /\ loading

---------------------------------------------------------------------------
(* Cart lines by key *)

\* The quantities the buttons of a cart line can ask for
Quantities == 1 .. MaxQuantity

\* C28 (as claimed): for every line of the cart, removeFromCart with the
\* line's product id, size and color leaves no line of that key and keeps the
\* other lines in order, and updateCartQuantity with that key and a positive
\* quantity sets the quantity of the lines of that key and of no other.
C28_KeyFindsLine ==
    \A i \in DOMAIN cart :
        LET item == cart[i]
            key(list) == LinesOf(list, item.id, item.selectedSize, item.selectedColor)
            others(line) == ~(/\ line.id = item.id
                              /\ line.selectedSize = item.selectedSize
                              /\ line.selectedColor = item.selectedColor)
            removed == removeFromCart(cart, item.id, item.selectedSize,
                                      item.selectedColor)
        IN /\ key(removed) = {}
           /\ removed = SelectSeq(cart, others)
           /\ \A quantity \in Quantities :
                LET updated == updateCartQuantity(cart, item.id, item.selectedSize,
                                                  item.selectedColor, quantity)
                IN /\ Len(updated) = Len(cart)
                   /\ \A j \in DOMAIN cart :
                        updated[j] = IF j \in key(cart)
                                     THEN Spread(cart[j], [quantity |-> quantity])
                                     ELSE cart[j]

\* Every cart line has a quantity of at least 1
QuantitiesPositive == \A i \in DOMAIN cart : cart[i].quantity >= 1

\* C29 (as claimed): every cart line has a quantity of at least 1, and
\* updateCartQuantity with the key of a line and a quantity of 0 or less
\* leaves no line of that key.
C29_NoEmptyLines ==
    /\ QuantitiesPositive
    /\ \A i \in DOMAIN cart : \A quantity \in {-1, 0} :
         LinesOf(updateCartQuantity(cart, cart[i].id, cart[i].selectedSize,
                                    cart[i].selectedColor, quantity),
                 cart[i].id, cart[i].selectedSize, cart[i].selectedColor) = {}

====
